---- MODULE Spec2Model ----
(***************************************************************************)
(* Model of src/index.js: the Spinner class (text and color setters,       *)
(* lineToRender, renderLine, start / stop / succeed / failed) and the      *)
(* batch orchestrator Spinner.startAll, run on the single-threaded Node.js *)
(* event loop (synchronous segments, the microtask queue, the setImmediate *)
(* queue, the setInterval schedules).                                      *)
(***************************************************************************)
EXTENDS Integers, Sequences, FiniteSets, TLC

\* ------------------------------------------------------------------ bounds
MaxTasks == 2        \* longest task list handed to startAll
MaxBatches == 2      \* startAll calls made one after another
MaxOps == 4          \* spinner calls made in a run
MaxAwaits == 1       \* awaits one task performs
MaxLen == 3          \* longest text assigned to a spinner
MaxQueue == 2        \* start events pending in the setImmediate queue (direct use)
MaxTimers == 2       \* live setInterval schedules of one instance (direct use)
MaxCols == 8         \* widest of the narrow terminals lines are rendered on

NumFrames == 3       \* frames of the spinner the instances animate

Spinners == 1..MaxTasks
TaskIds == 1..MaxTasks

\* ------------------------------------------------------------- JS values
Undefined == [kind |-> "undefined", id |-> 0]
Val(i) == [kind |-> "value", id |-> i]     \* what task i returns
Err(i) == [kind |-> "error", id |-> i]     \* the Error task i throws
Num(k) == [kind |-> "number", id |-> k]


\* `${reject.stack}`: reading a property of undefined throws a TypeError
CanReadStack(e) == e.kind # "undefined"
Diagnostic(e) == IF e.kind = "error" THEN [kind |-> "stack", id |-> e.id]
                 ELSE [kind |-> "text", id |-> 0]

\* ---------------------------------------------------------------- strings
LF == "\n"
CR == "\r"
Chars == {"a", LF, CR}
NoText == <<"undefined">>      \* the text argument left out

RECURSIVE StringsUpTo(_)
StringsUpTo(n) ==
  IF n = 0 THEN {<<>>}
  ELSE LET shorter == StringsUpTo(n - 1)
       IN shorter \cup {Append(s, c) : s \in {x \in shorter : Len(x) = n - 1}, c \in Chars}

Texts == StringsUpTo(MaxLen)

\* length of the match of /\r?\n|\r/ starting at index i of str (0: no match)
MatchLenAt(str, i) ==
  IF str[i] = LF THEN 1
  ELSE IF str[i] = CR
       THEN (IF i < Len(str) /\ str[i + 1] = LF THEN 2 ELSE 1)
       ELSE 0

\* value.replace(/\r?\n|\r/, ""): the regular expression has no g flag, so
\* only the leftmost match is replaced
RemoveFirst(str) ==
  LET hits == {i \in 1..Len(str) : MatchLenAt(str, i) > 0}
  IN IF hits = {} THEN str
     ELSE LET i == CHOOSE j \in hits : \A k \in hits : j <= k
          IN SubSeq(str, 1, i - 1) \o SubSeq(str, i + MatchLenAt(str, i), Len(str))

\* the input with every \n and \r removed
StripAll(str) == SelectSeq(str, LAMBDA c : c \notin {LF, CR})

\* decimal digits of a natural number, as `${n}` prints it
Digit(d) == <<"0", "1", "2", "3", "4", "5", "6", "7", "8", "9">>[d + 1]
RECURSIVE Dec(_)
Dec(n) == IF n < 10 THEN <<Digit(n)>> ELSE Dec(n \div 10) \o <<Digit(n % 10)>>

\* `${finished} / ${functions.length} : with ${failed} failed`
RecapStr(finished, total, failed) ==
  Dec(finished) \o <<" ", "/", " ">> \o Dec(total)
    \o <<" ", ":", " ", "w", "i", "t", "h", " ">> \o Dec(failed)
    \o <<" ", "f", "a", "i", "l", "e", "d">>

\* recapStr.length > col ? recapStr.slice(0, col) : recapStr
DisplayRecap(str, col) == IF Len(str) > col THEN SubSeq(str, 1, col) ELSE str

\* ------------------------------------------------------- the rendered line
ESC == "ESC"           \* \x1B
WIDE == "WIDE"         \* a double-width character
Digits == {"0", "1", "2", "3", "4", "5", "6", "7", "8", "9"}
\* the characters of the model that ansiRegex() accepts as the last character
\* of a sequence: the class [\dA-PR-TZcf-nq-uy=><~]
FinalChars == Digits \cup {"m"}

\* str.slice(0, n)
Slice(str, n) == SubSeq(str, 1, IF n < Len(str) THEN n ELSE Len(str))

\* length of the run of characters of str from index j on that belong to set,
\* at most max characters long
RECURSIVE RunLen(_, _, _, _)
RunLen(str, j, set, max) ==
  IF max = 0 \/ j > Len(str) \/ str[j] \notin set THEN 0
  ELSE 1 + RunLen(str, j + 1, set, max - 1)

\* length of the match of ansiRegex() at index i of str (0: no match): ESC,
\* any number of "[", at most four digits, a final character; the digits are
\* optional and a digit is a final character, so a sequence cut after a digit
\* still matches
AnsiMatchLen(str, i) ==
  IF str[i] # ESC THEN 0
  ELSE LET j == i + 1 + RunLen(str, i + 1, {"["}, Len(str))
           d == RunLen(str, j, Digits, 4)
       IN IF j + d <= Len(str) /\ str[j + d] \in FinalChars THEN j + d - i + 1
          ELSE IF d >= 1 THEN j + d - i
          ELSE 0

\* str.match(ansiRegex()) || []: the matches from index i on, left to right
RECURSIVE AnsiMatches(_, _)
AnsiMatches(str, i) ==
  IF i > Len(str) THEN <<>>
  ELSE LET n == AnsiMatchLen(str, i)
       IN IF n = 0 THEN AnsiMatches(str, i + 1)
          ELSE <<SubSeq(str, i, i + n - 1)>> \o AnsiMatches(str, i + n)

\* stripAnsi(str): str.replace(ansiRegex(), "")
RECURSIVE StripAnsi(_, _)
StripAnsi(str, i) ==
  IF i > Len(str) THEN <<>>
  ELSE LET n == AnsiMatchLen(str, i)
       IN IF n = 0 THEN <<str[i]>> \o StripAnsi(str, i + 1)
          ELSE StripAnsi(str, i + n)

\* wcwidth(str): a control character counts 0 columns, a double-width
\* character 2, any other character 1
CharWidth(c) == IF c = ESC THEN 0 ELSE IF c = WIDE THEN 2 ELSE 1
RECURSIVE Wcwidth(_)
Wcwidth(str) == IF str = <<>> THEN 0 ELSE CharWidth(Head(str)) + Wcwidth(Tail(str))

RECURSIVE SumWidths(_)
SumWidths(ms) == IF ms = <<>> THEN 0 ELSE Wcwidth(Head(ms)) + SumWidths(Tail(ms))

\* the colors kleur has a function for, and a name it has none for
NoColor == "absent"
KleurColors == {"red"}
Colors == {NoColor, "red", "bogus"}
NotAString == "42"
\* kleur.red(frame)
Kleur(color, frame) ==
  <<ESC, "[", "3", "1", "m">> \o frame \o <<ESC, "[", "3", "9", "m">>
\* kleur[this.color] is not a function: line 212 throws a TypeError
ColorThrows(color) == color # NoColor /\ color \notin KleurColors

\* the frames of the spinner, the symbols of logSymbols
Frames == [k \in 1..NumFrames |-> IF k % 2 = 1 THEN "f" ELSE "g"]
NoSymbol == "undefined"
SuccessSymbol == "ok"
ErrorSymbol == "ko"
NoPrefix == <<>>
\* set prefixText(value): line 107
PrefixOf(value) == IF value = NoText THEN <<>> ELSE RemoveFirst(value) \o <<" ", "-", " ">>

\* lines 216-225: the loop that counts the escape sequences of the slice
RECURSIVE RegexArray(_, _, _)
RegexArray(raw, terminalCol, n) ==
  LET found == AnsiMatches(Slice(raw, terminalCol + n), 1)
  IN IF Len(found) = n THEN found ELSE RegexArray(raw, terminalCol, Len(found))

\* lines 211-232 of lineToRender: the line made of a frame or symbol
LineToRender(frame, color, prefixText, text, terminalCol) ==
  LET shown == IF color = NoColor THEN <<frame>> ELSE Kleur(color, <<frame>>)
      defaultRaw == shown \o <<" ">> \o prefixText \o text
      regexArray == RegexArray(defaultRaw, terminalCol, 0)
      cnt == Len(regexArray) + SumWidths(regexArray)
  IN IF Wcwidth(StripAnsi(defaultRaw, 1)) > terminalCol
     THEN Slice(defaultRaw, terminalCol + cnt) \o <<ESC, "[", "0", "m">>
     ELSE defaultRaw

\* columns the terminal shows for a written line
VisibleWidth(line) == Wcwidth(StripAnsi(line, 1))

\* ------------------------------------------------------------------ state
VARIABLES
  count,        \* Spinner.count
  listeners,    \* the closures subscribed to Spinner.emitter, oldest first
  immediateQ,   \* callbacks queued with setImmediate, oldest first
  microQ,       \* pending promise jobs, oldest first
  cursorHidden, \* cliCursor.hide() / show()
  cols,         \* process.stdout.columns
  spinners,     \* the Spinner instances
  pc,           \* position of the startAll call in progress
  outcome,      \* how the last startAll call ended
  callNo,       \* startAll calls made so far
  functions,    \* the task list of the last startAll call
  recapArg,     \* options.recap of the last startAll call
  rejectOpt,    \* rejectOpt of the last startAll call
  rejects,      \* the rejects array
  results,      \* the array startAll returned
  printed,      \* console.error output of the last startAll call
  finalOut,     \* terminal writes of its finalization, in order
  launchIdx,    \* next element functions.map will invoke
  cur,          \* task whose synchronous segment is running (0: none)
  tasks,        \* the invocations of the last startAll call
  ops,          \* spinner calls made so far
  lastRecap,    \* the recap string written last
  batchWrites   \* recap writes on the terminal since the last startAll call

spinnerVars == <<count, immediateQ, microQ, spinners>>
batchVars == <<listeners, cursorHidden, pc, outcome, callNo, functions, recapArg,
               rejectOpt, rejects, results, printed, finalOut, launchIdx, cur,
               tasks, ops, lastRecap, batchWrites>>
vars == <<count, listeners, immediateQ, microQ, cursorHidden, cols, spinners, pc,
          outcome, callNo, functions, recapArg, rejectOpt, rejects, results,
          printed, finalOut, launchIdx, cur, tasks, ops, lastRecap, batchWrites>>

NoPos == -1          \* this.spinnerPos not assigned yet
NoOffset == [kind |-> "undefined", id |-> 0]   \* renderLine has not run yet
NaN == [kind |-> "NaN", id |-> 0]              \* Spinner.count - undefined
NoLine == <<>>       \* the instance has written no line yet
TermCols == {12, 80}

\* new Spinner({ verbose, text }): lines 46-65
NewSpinner(verbose, text) ==
  [verbose |-> verbose,
   text |-> IF verbose THEN RemoveFirst(text) ELSE <<>>,
   textIn |-> IF verbose THEN text ELSE <<>>,
   started |-> FALSE,
   frameIndex |-> 0,
   spinnerPos |-> NoPos,
   onceArmed |-> verbose,
   timers |-> 0,
   handleLive |-> FALSE,
   color |-> NoColor,
   prefixText |-> NoPrefix,
   offset |-> NoOffset,
   line |-> NoLine,
   thrown |-> "none"]

IdleTask == [st |-> "none", invoked |-> 0, with |-> <<>>, awaits |-> 0,
             value |-> Undefined, slot |-> Undefined,
             nStart |-> 0, nSucc |-> 0, nFail |-> 0]

\* the process before its first call, on a terminal of one of the widths ws
InitOn(ws) ==
  /\ count = 0
  /\ listeners = <<>>
  /\ immediateQ = <<>>
  /\ microQ = <<>>
  /\ cursorHidden = FALSE
  /\ cols \in ws
  /\ pc = "idle"
  /\ outcome = "none"
  /\ callNo = 0
  /\ functions = <<>>
  /\ recapArg = "absent"
  /\ rejectOpt = TRUE
  /\ rejects = <<>>
  /\ results = <<>>
  /\ printed = <<>>
  /\ finalOut = <<>>
  /\ launchIdx = 1
  /\ cur = 0
  /\ tasks = [i \in TaskIds |-> IdleTask]
  /\ ops = 0
  /\ lastRecap = <<>>
  /\ batchWrites = 0

InitCommon == InitOn(TermCols)

Init ==
  /\ InitCommon
  /\ spinners = [s \in Spinners |-> NewSpinner(TRUE, <<>>)]

\* ------------------------------------------------- Spinner instance methods
\* set text(value): line 88
SetTextRec(r, t) ==
  IF t = NoText THEN r ELSE [r EXCEPT !.text = RemoveFirst(t), !.textIn = t]

\* lineToRender(symbol), lines 199-233: the frame index after the call and the
\* line returned
NextFrameIndex(r, symbol) ==
  IF symbol = NoSymbol
  THEN (IF r.frameIndex + 1 < NumFrames THEN r.frameIndex + 1 ELSE 0)
  ELSE r.frameIndex
LineOf(r, symbol) ==
  LineToRender(IF symbol = NoSymbol THEN Frames[r.frameIndex + 1] ELSE symbol,
               r.color, r.prefixText, r.text, cols)

\* renderLine(symbol), lines 243-251: the cursor offset is computed from
\* this.spinnerPos, then the line is built and written
RenderRec(r, symbol) ==
  [r EXCEPT !.offset = IF r.spinnerPos = NoPos THEN NaN
                       ELSE [kind |-> "number", id |-> count - r.spinnerPos],
            !.frameIndex = NextFrameIndex(r, symbol),
            !.line = IF ColorThrows(r.color) THEN @ ELSE LineOf(r, symbol),
            !.thrown = IF ColorThrows(r.color) THEN "render" ELSE @]

\* start(text) on a verbose instance: lines 265-275; when lineToRender throws
\* at line 274 the interval of line 275 is not set
StartRec(r, t) ==
  LET r0 == [SetTextRec(r, t) EXCEPT !.started = TRUE,
                                     !.onceArmed = FALSE,
                                     !.frameIndex = 0]
  IN IF ColorThrows(r.color)
     THEN [r0 EXCEPT !.frameIndex = NextFrameIndex(r0, NoSymbol),
                     !.thrown = "start"]
     ELSE [r0 EXCEPT !.frameIndex = NextFrameIndex(r0, NoSymbol),
                     !.line = LineOf(r0, NoSymbol),
                     !.timers = @ + 1,
                     !.handleLive = TRUE]

\* stop(text): lines 288-298
StopRec(r, t) ==
  IF ~r.verbose \/ ~r.started THEN r
  ELSE [SetTextRec(r, t) EXCEPT !.started = FALSE,
                                !.timers = IF r.handleLive THEN @ - 1 ELSE @,
                                !.handleLive = FALSE]

\* ------------------------------------------- the listeners of one startAll
\* lines 372-375: the bookkeeping one accepted call closes over
RecapOptOf(rc) == IF rc \in {"none", "error", "always"} THEN rc ELSE "always"
NewBatch(n, rc) ==
  [total |-> n, recapOpt |-> RecapOptOf(rc), recap |-> (RecapOptOf(rc) = "always"),
   started |-> 0, finished |-> 0, failed |-> 0, writes |-> 0]

\* faulty variant of OnEvent: the "failed" listener without finished++
OnEventFailedNotFinished(l, ev) ==
  IF ev = "start" THEN [l EXCEPT !.started = @ + 1]
  ELSE IF ev = "succeed" THEN [l EXCEPT !.finished = @ + 1]
  ELSE [l EXCEPT !.failed = @ + 1,
                 !.recap = (l.recapOpt = "error" \/ l.recapOpt = "always")]
\* the counting done by the "start" / "succeed" / "failed" listeners
OnEvent(l, ev) ==
  IF ev = "start" THEN [l EXCEPT !.started = @ + 1]
  ELSE IF ev = "succeed" THEN [l EXCEPT !.finished = @ + 1]
  ELSE [l EXCEPT !.finished = @ + 1,
                 !.failed = @ + 1,
                 !.recap = (l.recapOpt = "error" \/ l.recapOpt = "always")]

\* faulty variant of ShouldWrite: started === functions.length left out
ShouldWriteAnyCount(l) == l.recap = TRUE
\* started === functions.length && recap === true (lines 395, 404, 413)
ShouldWrite(l) == l.started = l.total /\ l.recap = TRUE

\* Spinner.emitter.emit(ev): every subscribed listener runs, oldest first
Emit(ev) ==
  LET counted == [k \in DOMAIN listeners |-> OnEvent(listeners[k], ev)]
      writers == {k \in DOMAIN listeners : ShouldWrite(counted[k])}
      last == CHOOSE k \in writers : \A j \in writers : j <= k
  IN /\ listeners' = [k \in DOMAIN listeners |->
                        IF k \in writers THEN [counted[k] EXCEPT !.writes = @ + 1]
                        ELSE counted[k]]
     /\ batchWrites' = batchWrites + Cardinality(writers)
     /\ lastRecap' = IF writers = {} THEN lastRecap
                     ELSE DisplayRecap(RecapStr(counted[last].finished,
                                                counted[last].total,
                                                counted[last].failed), cols)

\* start(text): lines 261-278
DoStart(s, t) ==
  LET r == spinners[s]
  IN IF ~r.verbose THEN UNCHANGED <<spinners, microQ, immediateQ>>
     ELSE /\ spinners' = [spinners EXCEPT ![s] = StartRec(r, t)]
          /\ microQ' = IF r.onceArmed THEN Append(microQ, [job |-> "pos", id |-> s])
                       ELSE microQ
          /\ immediateQ' = Append(immediateQ, "start")

\* the symbol succeed() / failed() renders
SymbolOf(ev) == IF ev = "succeed" THEN SuccessSymbol ELSE ErrorSymbol

\* faulty variant of DoEnd: succeed() / failed() without the test of
\* this.verbose
DoEndUnguarded(s, t, ev) ==
  LET r == spinners[s]
  IN /\ spinners' = [spinners EXCEPT ![s] = RenderRec(StopRec(r, t), SymbolOf(ev))]
     /\ IF ColorThrows(r.color)
        THEN UNCHANGED <<listeners, lastRecap, batchWrites>>
        ELSE Emit(ev)
\* succeed(text) / failed(text): lines 308-334; when renderLine throws the
\* event is not emitted
DoEnd(s, t, ev) ==
  LET r == spinners[s]
  IN IF ~r.verbose THEN UNCHANGED <<spinners, listeners, lastRecap, batchWrites>>
     ELSE /\ spinners' = [spinners EXCEPT ![s] = RenderRec(StopRec(r, t), SymbolOf(ev))]
          /\ IF ColorThrows(r.color)
             THEN UNCHANGED <<listeners, lastRecap, batchWrites>>
             ELSE Emit(ev)

\* ------------------------------------------------------ Spinner.startAll
\* an element of the functions argument
Entries ==
  {[array |-> FALSE, async |-> TRUE, args |-> <<>>],
   [array |-> TRUE, async |-> TRUE, args |-> <<"x">>],
   [array |-> FALSE, async |-> FALSE, args |-> <<>>],
   [array |-> TRUE, async |-> FALSE, args |-> <<"x">>]}
TaskLists == UNION {[1..n -> Entries] : n \in 0..MaxTasks}
RecapArgs == {"none", "error", "always", "absent", "bogus"}
RejectsArgs == {"true", "false", "absent"}
NotArray == [isArr |-> FALSE, fs |-> <<>>, rc |-> "absent", rj |-> "absent"]
\* the calls startAll(functions, options) of the model
Calls(lists, recaps, rejs) ==
  [isArr : {TRUE}, fs : lists, rc : recaps, rj : rejs]

\* lines 354-366: the element is an async function, or an array whose first
\* item is one
ValidEntry(e) == IF e.array THEN e.async ELSE e.async
\* faulty variant of ValidFunctions: the loop stops after the first element
ValidFirstEntry(fs) == fs = <<>> \/ ValidEntry(fs[1])
ValidFunctions(fs) == \A i \in DOMAIN fs : ValidEntry(fs[i])
\* line 368
ValidRecap(rc) == rc = "absent" \/ rc \in {"none", "error", "always"}
\* line 373
RejectOptOf(rj) == IF rj \in {"true", "false"} THEN rj = "true" ELSE TRUE

NumTasks == Len(functions)
Launched == launchIdx > NumTasks
Settled(i) == tasks[i].st \in {"resolved", "rejected"}
\* faulty variant of AllSettled: Promise.all over the uncaught promises, which
\* the first rejection ends
AllSettledOrOneRejected ==
  \/ \A i \in 1..NumTasks : Settled(i)
  \/ \E i \in 1..NumTasks : tasks[i].st = "rejected"
\* Promise.all over the caught promises resolves when each of them has
AllSettled == \A i \in 1..NumTasks : Settled(i)
\* no synchronous segment is running and no promise job is pending
MacroReady ==
  /\ cur = 0
  /\ microQ = <<>>
  /\ ~(pc = "running" /\ (~Launched \/ AllSettled))

\* lines 349-419: the call up to functions.map
StartAll(call) ==
  LET isArr == call.isArr
      fs == call.fs
      rc == call.rc
      rj == call.rj
  IN
  /\ pc \in {"idle", "done"}
  /\ cur = 0
  /\ callNo < MaxBatches
  /\ callNo' = callNo + 1
  /\ functions' = IF isArr THEN fs ELSE <<>>
  /\ recapArg' = rc
  /\ rejects' = <<>>
  /\ results' = <<>>
  /\ printed' = <<>>
  /\ finalOut' = <<>>
  /\ batchWrites' = 0
  /\ launchIdx' = 1
  /\ IF ~isArr \/ ~ValidFunctions(fs) \/ ~ValidRecap(rc)
     THEN /\ pc' = "done"
          /\ outcome' = "configError"
          /\ rejectOpt' = TRUE
          /\ tasks' = [i \in TaskIds |-> IdleTask]
          /\ UNCHANGED <<listeners, cursorHidden>>
     ELSE /\ pc' = "running"
          /\ outcome' = "none"
          /\ rejectOpt' = RejectOptOf(rj)
          /\ listeners' = Append(listeners, NewBatch(Len(fs), rc))
          /\ cursorHidden' = TRUE
          /\ tasks' = [i \in TaskIds |->
                         IF i <= Len(fs) THEN [IdleTask EXCEPT !.st = "pending"]
                         ELSE IdleTask]
  /\ UNCHANGED <<spinnerVars, cols, cur, ops, lastRecap>>

\* lines 421-429: functions.map calls the next element
Invoke(i) ==
  /\ pc = "running"
  /\ cur = 0
  /\ launchIdx = i
  /\ i <= NumTasks
  /\ tasks' = [tasks EXCEPT ![i].st = "running",
                            ![i].invoked = @ + 1,
                            ![i].with = functions[i].args]
  /\ cur' = i
  /\ launchIdx' = i + 1
  /\ UNCHANGED <<spinnerVars, cols, listeners, cursorHidden, pc, outcome, callNo,
                 functions, recapArg, rejectOpt, rejects, results, printed,
                 finalOut, ops, lastRecap, batchWrites>>

\* ------------------------------------------------ the body of a task
Running(i) == cur = i /\ tasks[i].st = "running"
orchVars == <<cursorHidden, pc, outcome, callNo, functions, recapArg, rejectOpt,
              results, printed, finalOut, launchIdx>>

\* the call the task made threw: the TypeError leaves the async function
Thrown(i) == spinners[i].verbose /\ ColorThrows(spinners[i].color)
\* the task after a call on its spinner, tk its record with the call counted
TaskCalled(i, tk) ==
  IF Thrown(i)
  THEN /\ rejects' = Append(rejects, Err(i))
       /\ tasks' = [tasks EXCEPT ![i] = [tk EXCEPT !.st = "rejected",
                                                  !.value = Err(i),
                                                  !.slot = Num(Len(rejects) + 1)]]
       /\ cur' = 0
  ELSE /\ tasks' = [tasks EXCEPT ![i] = tk]
       /\ UNCHANGED <<cur, rejects>>

TaskStart(i, t) ==
  /\ Running(i)
  /\ ops < MaxOps
  /\ ops' = ops + 1
  /\ DoStart(i, t)
  /\ TaskCalled(i, [tasks[i] EXCEPT !.nStart = @ + 1])
  /\ UNCHANGED <<orchVars, count, cols, listeners, lastRecap, batchWrites>>

TaskStop(i, t) ==
  /\ Running(i)
  /\ ops < MaxOps
  /\ ops' = ops + 1
  /\ spinners' = [spinners EXCEPT ![i] = StopRec(spinners[i], t)]
  /\ UNCHANGED tasks
  /\ UNCHANGED <<orchVars, count, immediateQ, microQ, cols, cur, rejects, listeners,
                 lastRecap, batchWrites>>

TaskSucceed(i, t) ==
  /\ Running(i)
  /\ ops < MaxOps
  /\ ops' = ops + 1
  /\ DoEnd(i, t, "succeed")
  /\ TaskCalled(i, [tasks[i] EXCEPT !.nSucc = @ + 1])
  /\ UNCHANGED <<orchVars, count, immediateQ, microQ, cols>>

TaskFailed(i, t) ==
  /\ Running(i)
  /\ ops < MaxOps
  /\ ops' = ops + 1
  /\ DoEnd(i, t, "failed")
  /\ TaskCalled(i, [tasks[i] EXCEPT !.nFail = @ + 1])
  /\ UNCHANGED <<orchVars, count, immediateQ, microQ, cols>>

\* await of an already settled promise: the task resumes as a promise job
TaskAwaitMicro(i) ==
  /\ Running(i)
  /\ tasks[i].awaits < MaxAwaits
  /\ UNCHANGED ops
  /\ tasks' = [tasks EXCEPT ![i].awaits = @ + 1, ![i].st = "awaitMicro"]
  /\ microQ' = Append(microQ, [job |-> "task", id |-> i])
  /\ cur' = 0
  /\ UNCHANGED <<orchVars, count, immediateQ, spinners, cols, rejects, listeners,
                 lastRecap, batchWrites>>

\* await of a timer or of I/O: the task resumes in a later turn of the loop
TaskAwaitMacro(i) ==
  /\ Running(i)
  /\ tasks[i].awaits < MaxAwaits
  /\ UNCHANGED ops
  /\ tasks' = [tasks EXCEPT ![i].awaits = @ + 1, ![i].st = "awaitMacro"]
  /\ cur' = 0
  /\ UNCHANGED <<orchVars, spinnerVars, cols, rejects, listeners, lastRecap,
                 batchWrites>>

\* the async function returns v
TaskResolve(i, v) ==
  /\ Running(i)
  /\ UNCHANGED ops
  /\ tasks' = [tasks EXCEPT ![i].st = "resolved", ![i].value = v, ![i].slot = v]
  /\ cur' = 0
  /\ UNCHANGED <<orchVars, spinnerVars, cols, rejects, listeners, lastRecap,
                 batchWrites>>

\* the async function throws e; .catch((err) => rejects.push(err)) settles the
\* slot with what push returns, the new length of rejects (lines 425, 428)
CaughtSlot(rj, e) == Num(Len(rj) + 1)
TaskReject(i, e) ==
  /\ Running(i)
  /\ UNCHANGED ops
  /\ rejects' = Append(rejects, e)
  /\ tasks' = [tasks EXCEPT ![i].st = "rejected", ![i].value = e,
                            ![i].slot = CaughtSlot(rejects, e)]
  /\ cur' = 0
  /\ UNCHANGED <<orchVars, spinnerVars, cols, listeners, lastRecap, batchWrites>>

\* ---------------------------------------------------------- the event loop
\* promise jobs run once the running segment (functions.map included) is over
MicroReady == cur = 0 /\ ~(pc = "running" /\ ~Launched) /\ microQ # <<>>

\* once(this.emitter, "start").then(...): lines 61-64
AssignPos ==
  /\ MicroReady
  /\ Head(microQ).job = "pos"
  /\ spinners' = [spinners EXCEPT ![Head(microQ).id].spinnerPos = count]
  /\ count' = count + 1
  /\ microQ' = Tail(microQ)
  /\ UNCHANGED <<batchVars, immediateQ, cols>>

ResumeMicro ==
  /\ MicroReady
  /\ Head(microQ).job = "task"
  /\ cur' = Head(microQ).id
  /\ tasks' = [tasks EXCEPT ![Head(microQ).id].st = "running"]
  /\ UNCHANGED ops
  /\ microQ' = Tail(microQ)
  /\ UNCHANGED <<orchVars, count, immediateQ, spinners, cols, rejects, listeners,
                 lastRecap, batchWrites>>

ResumeMacro(i) ==
  /\ MacroReady
  /\ tasks[i].st = "awaitMacro"
  /\ cur' = i
  /\ UNCHANGED ops
  /\ tasks' = [tasks EXCEPT ![i].st = "running"]
  /\ UNCHANGED <<orchVars, spinnerVars, cols, rejects, listeners, lastRecap,
                 batchWrites>>

\* faulty variant of QueueYield: the yield runs ahead of the callbacks that
\* were queued before it
QueueYieldFirst(q) == <<"yield">> \o q
\* line 432: timers.setImmediate() queues its callback behind those already
\* queued with setImmediate
QueueYield(q) == Append(q, "yield")

\* lines 420, 432: Promise.all resolves, startAll calls timers.setImmediate()
Join ==
  /\ pc = "running"
  /\ Launched
  /\ cur = 0
  /\ microQ = <<>>
  /\ AllSettled
  /\ results' = [i \in 1..NumTasks |-> tasks[i].slot]
  /\ immediateQ' = QueueYield(immediateQ)
  /\ pc' = "yield"
  /\ UNCHANGED <<count, microQ, spinners, cols, listeners, cursorHidden, outcome,
                 callNo, functions, recapArg, rejectOpt, rejects, printed, finalOut,
                 launchIdx, cur, tasks, ops, lastRecap, batchWrites>>

\* line 271: setImmediate(() => Spinner.emitter.emit("start"))
DeliverStart ==
  /\ MacroReady
  /\ immediateQ # <<>>
  /\ Head(immediateQ) = "start"
  /\ immediateQ' = Tail(immediateQ)
  /\ Emit("start")
  /\ UNCHANGED <<orchVars, count, microQ, spinners, cols, rejects, cur, tasks, ops>>

\* the rejections console.error prints before `${reject.stack}` throws
RECURSIVE PrintedOf(_)
PrintedOf(rj) ==
  IF rj = <<>> \/ ~CanReadStack(Head(rj)) THEN <<>>
  ELSE <<Diagnostic(Head(rj))>> \o PrintedOf(Tail(rj))

\* lines 433-446: what startAll does after the yield
Finalize ==
  LET me == Len(listeners)
      own == listeners[me]
      shown == IF rejectOpt = TRUE /\ Len(rejects) > 0 THEN PrintedOf(rejects) ELSE <<>>
      threw == rejectOpt = TRUE /\ \E k \in DOMAIN rejects : ~CanReadStack(rejects[k])
  IN /\ MacroReady
     /\ pc = "yield"
     /\ immediateQ # <<>>
     /\ Head(immediateQ) = "yield"
     /\ immediateQ' = Tail(immediateQ)
     /\ IF own.recap = TRUE
        THEN /\ listeners' = [listeners EXCEPT ![me].writes = @ + 1]
             /\ lastRecap' = DisplayRecap(RecapStr(own.finished, own.total, own.failed),
                                          cols)
             /\ batchWrites' = batchWrites + 1
        ELSE UNCHANGED <<listeners, lastRecap, batchWrites>>
     /\ printed' = shown
     /\ finalOut' = (IF own.recap = TRUE THEN <<"recap">> ELSE <<>>)
                      \o [k \in DOMAIN shown |-> "reject"]
     /\ IF threw
        THEN /\ outcome' = "rejected"
             /\ UNCHANGED <<cursorHidden, count>>
        ELSE /\ outcome' = "resolved"
             /\ cursorHidden' = FALSE
             /\ count' = 0
     /\ pc' = "done"
     /\ UNCHANGED <<microQ, spinners, cols, callNo, functions, recapArg, rejectOpt,
                    rejects, results, launchIdx, cur, tasks, ops>>

\* ------------------------------------- a program using an instance directly
\* the program assigns instance.text
SetText(s, t) ==
  /\ pc = "idle"
  /\ t # NoText
  /\ spinners' = [spinners EXCEPT ![s] = SetTextRec(spinners[s], t)]
  /\ UNCHANGED <<batchVars, count, immediateQ, microQ, cols>>

DirectStart(s, t) ==
  /\ pc = "idle"
  /\ Len(immediateQ) < MaxQueue
  /\ spinners[s].timers < MaxTimers
  /\ DoStart(s, t)
  /\ UNCHANGED <<batchVars, count, cols>>

DirectStop(s, t) ==
  /\ pc = "idle"
  /\ spinners' = [spinners EXCEPT ![s] = StopRec(spinners[s], t)]
  /\ UNCHANGED <<batchVars, count, immediateQ, microQ, cols>>

DirectSucceed(s, t) ==
  /\ pc = "idle"
  /\ DoEnd(s, t, "succeed")
  /\ UNCHANGED <<orchVars, count, immediateQ, microQ, cols, rejects, cur, tasks, ops>>

DirectFailed(s, t) ==
  /\ pc = "idle"
  /\ DoEnd(s, t, "failed")
  /\ UNCHANGED <<orchVars, count, immediateQ, microQ, cols, rejects, cur, tasks, ops>>

\* the program assigns instance.color: lines 127-132
SetColor(s, c) ==
  /\ pc = "idle"
  /\ spinners' = [spinners EXCEPT ![s] =
                    IF c = NotAString THEN [@ EXCEPT !.thrown = "color"]
                    ELSE [@ EXCEPT !.color = c]]
  /\ UNCHANGED <<batchVars, count, immediateQ, microQ, cols>>

\* line 275: a setInterval schedule of the instance fires, renderLine() runs
Tick(s) ==
  /\ MacroReady
  /\ spinners[s].timers > 0
  /\ spinners' = [spinners EXCEPT ![s] = RenderRec(spinners[s], NoSymbol)]
  /\ UNCHANGED <<batchVars, count, immediateQ, microQ, cols>>

\* ---------------------------------------------------------- specifications
BatchTexts == {NoText}
ResolveValues(i) == {Val(i)}
RejectValues(i) == {Err(i), Undefined}

\* every operation of a batch
Next ==
  \/ \E call \in Calls(TaskLists, RecapArgs, RejectsArgs) \cup {NotArray} :
       StartAll(call)
  \/ \E i \in TaskIds : Invoke(i)
  \/ \E i \in TaskIds, t \in BatchTexts : TaskStart(i, t)
  \/ \E i \in TaskIds, t \in BatchTexts : TaskStop(i, t)
  \/ \E i \in TaskIds, t \in BatchTexts : TaskSucceed(i, t)
  \/ \E i \in TaskIds, t \in BatchTexts : TaskFailed(i, t)
  \/ \E i \in TaskIds : TaskAwaitMicro(i)
  \/ \E i \in TaskIds : TaskAwaitMacro(i)
  \/ \E i \in TaskIds : \E v \in ResolveValues(i) : TaskResolve(i, v)
  \/ \E i \in TaskIds : \E e \in RejectValues(i) : TaskReject(i, e)
  \/ AssignPos
  \/ ResumeMicro
  \/ \E i \in TaskIds : ResumeMacro(i)
  \/ Join
  \/ DeliverStart
  \/ Finalize

Spec == Init /\ [][Next]_vars

\* batches whose tasks await and settle without driving a spinner; every
\* argument startAll can be called with
NextSettle ==
  \/ \E call \in Calls(TaskLists, RecapArgs, RejectsArgs) \cup {NotArray} :
       StartAll(call)
  \/ \E i \in TaskIds : Invoke(i)
  \/ \E i \in TaskIds : TaskAwaitMicro(i)
  \/ \E i \in TaskIds : TaskAwaitMacro(i)
  \/ \E i \in TaskIds : \E v \in ResolveValues(i) : TaskResolve(i, v)
  \/ \E i \in TaskIds : \E e \in RejectValues(i) : TaskReject(i, e)
  \/ ResumeMicro
  \/ \E i \in TaskIds : ResumeMacro(i)
  \/ Join
  \/ Finalize

SpecSettle == Init /\ [][NextSettle]_vars

\* the first startAll call of the process
FirstCall(call) == callNo = 0 /\ StartAll(call)

\* batches of async functions that drive their spinners
AsyncLists == {fs \in TaskLists : \A i \in DOMAIN fs : fs[i] = [array |-> FALSE, async |-> TRUE, args |-> <<>>]}
\* one batch whose tasks drive their spinners, awaiting in between
NextRecap ==
  \/ \E call \in Calls(AsyncLists, {"none", "error", "always"}, {"true"}) :
       FirstCall(call)
  \/ \E i \in TaskIds : Invoke(i)
  \/ \E i \in TaskIds, t \in BatchTexts : TaskStart(i, t)
  \/ \E i \in TaskIds, t \in BatchTexts : TaskSucceed(i, t)
  \/ \E i \in TaskIds, t \in BatchTexts : TaskFailed(i, t)
  \/ \E i \in TaskIds : TaskAwaitMicro(i)
  \/ \E i \in TaskIds : TaskAwaitMacro(i)
  \/ \E i \in TaskIds : TaskResolve(i, Val(i))
  \/ \E i \in TaskIds : TaskReject(i, Err(i))
  \/ AssignPos
  \/ ResumeMicro
  \/ \E i \in TaskIds : ResumeMacro(i)
  \/ Join
  \/ DeliverStart
  \/ Finalize

SpecRecap == Init /\ [][NextRecap]_vars

\* batches run one after another; their tasks drive their spinners and settle
\* without awaiting
NextBatches ==
  \/ \E call \in Calls(AsyncLists, {"none", "error", "always"}, {"true"}) :
       StartAll(call)
  \/ \E i \in TaskIds : Invoke(i)
  \/ \E i \in TaskIds, t \in BatchTexts : TaskStart(i, t)
  \/ \E i \in TaskIds, t \in BatchTexts : TaskSucceed(i, t)
  \/ \E i \in TaskIds, t \in BatchTexts : TaskFailed(i, t)
  \/ \E i \in TaskIds : TaskResolve(i, Val(i))
  \/ \E i \in TaskIds : TaskReject(i, Err(i))
  \/ AssignPos
  \/ Join
  \/ DeliverStart
  \/ Finalize

SpecBatches == Init /\ [][NextBatches]_vars

\* one instance, constructed with any text, used outside any batch with any
\* text argument
DirectSpinners == {1}
TextArgs == Texts \cup {NoText}
\* the text arguments the calls are made with: none, or line breaks only
CallTexts == {t \in TextArgs : t = NoText \/ (Len(t) = MaxLen /\ \A k \in DOMAIN t : t[k] # "a")}
InitText ==
  /\ InitCommon
  /\ \E t \in Texts :
       spinners = [s \in Spinners |->
                     NewSpinner(TRUE, IF s \in DirectSpinners THEN t ELSE <<>>)]
NextText ==
  \/ \E s \in DirectSpinners, t \in Texts : SetText(s, t)
  \/ \E s \in DirectSpinners, t \in CallTexts : DirectStart(s, t)
  \/ \E s \in DirectSpinners, t \in CallTexts : DirectStop(s, t)
  \/ \E s \in DirectSpinners, t \in CallTexts : DirectSucceed(s, t)
  \/ \E s \in DirectSpinners, t \in CallTexts : DirectFailed(s, t)
  \/ AssignPos
  \/ DeliverStart

SpecText == InitText /\ [][NextText]_vars

\* one instance, constructed with any color, prefix and text (escape sequences
\* and double-width characters included), rendered on narrow terminals
RenderChars == {"a", WIDE, ESC, "[", "m"}
RECURSIVE StringsOver(_, _)
StringsOver(chars, n) ==
  IF n = 0 THEN {<<>>}
  ELSE LET shorter == StringsOver(chars, n - 1)
       IN shorter \cup {Append(s, c) : s \in {x \in shorter : Len(x) = n - 1}, c \in chars}
RenderTexts == StringsOver(RenderChars, MaxLen)
RenderCols == 1..MaxCols
RenderPrefixes == {NoText, <<"p">>}
InitRender ==
  /\ InitOn(RenderCols)
  /\ \E t \in RenderTexts, c \in {NoColor} \cup KleurColors, p \in RenderPrefixes :
       spinners = [s \in Spinners |->
                     IF s \in DirectSpinners
                     THEN [NewSpinner(TRUE, t) EXCEPT !.color = c,
                                                      !.prefixText = PrefixOf(p)]
                     ELSE NewSpinner(TRUE, <<>>)]
NextRender ==
  \/ \E s \in DirectSpinners : DirectStart(s, NoText)
  \/ \E s \in DirectSpinners : DirectStop(s, NoText)
  \/ \E s \in DirectSpinners : DirectSucceed(s, NoText)
  \/ \E s \in DirectSpinners : DirectFailed(s, NoText)
  \/ \E s \in DirectSpinners : Tick(s)
  \/ AssignPos
  \/ DeliverStart

SpecRender == InitRender /\ [][NextRender]_vars

\* one instance used outside any batch, its color assigned at will
NextDirect ==
  \/ \E s \in DirectSpinners, c \in Colors \cup {NotAString} : SetColor(s, c)
  \/ \E s \in DirectSpinners : DirectStart(s, NoText)
  \/ \E s \in DirectSpinners : DirectStop(s, NoText)
  \/ \E s \in DirectSpinners : DirectSucceed(s, NoText)
  \/ \E s \in DirectSpinners : DirectFailed(s, NoText)
  \/ \E s \in DirectSpinners : Tick(s)
  \/ AssignPos
  \/ DeliverStart

SpecDirect == Init /\ [][NextDirect]_vars

\* one batch whose tasks drive instances of which some were constructed with
\* verbose = false
InitQuiet ==
  /\ InitCommon
  /\ spinners \in [Spinners -> {NewSpinner(TRUE, <<>>), NewSpinner(FALSE, <<>>)}]
NextQuiet ==
  \/ \E call \in Calls(AsyncLists, {"error", "always"}, {"true"}) : FirstCall(call)
  \/ \E i \in TaskIds : Invoke(i)
  \/ \E i \in TaskIds, t \in BatchTexts : TaskStart(i, t)
  \/ \E i \in TaskIds, t \in BatchTexts : TaskStop(i, t)
  \/ \E i \in TaskIds, t \in BatchTexts : TaskSucceed(i, t)
  \/ \E i \in TaskIds, t \in BatchTexts : TaskFailed(i, t)
  \/ \E i \in TaskIds : TaskAwaitMacro(i)
  \/ \E i \in TaskIds : TaskResolve(i, Val(i))
  \/ \E s \in Spinners : Tick(s)
  \/ AssignPos
  \/ \E i \in TaskIds : ResumeMacro(i)
  \/ Join
  \/ DeliverStart
  \/ Finalize

SpecQuiet == InitQuiet /\ [][NextQuiet]_vars

\* batches run one after another on the same instances, whose schedules fire
NextSchedule ==
  \/ \E call \in Calls(AsyncLists, {"none"}, {"true"}) : StartAll(call)
  \/ \E i \in TaskIds : Invoke(i)
  \/ \E i \in TaskIds, t \in BatchTexts : TaskStart(i, t)
  \/ \E i \in TaskIds, t \in BatchTexts : TaskSucceed(i, t)
  \/ \E i \in TaskIds : TaskAwaitMacro(i)
  \/ \E i \in TaskIds : TaskResolve(i, Val(i))
  \/ \E s \in Spinners : Tick(s)
  \/ AssignPos
  \/ \E i \in TaskIds : ResumeMacro(i)
  \/ Join
  \/ DeliverStart
  \/ Finalize

SpecSchedule == Init /\ [][NextSchedule]_vars

\* ----------------------------------------------------------------- claims
\* the startAll call in progress (or just ended) passed validation
Accepted == pc \in {"running", "yield", "done"} /\ outcome # "configError"
\* the promise startAll returned is resolved
Returned == pc = "done" /\ outcome = "resolved"
\* the bookkeeping of the last accepted call
Own == listeners[Len(listeners)]
Rejected == {i \in 1..NumTasks : tasks[i].st = "rejected"}

\* C1 (as claimed): the array startAll returns has one slot per task, in input
\* order; the slot of a task that resolved holds its value, the slot of a task
\* that rejected holds undefined.
C1_SlotsHoldValueOrUndefined ==
  Returned =>
    /\ Len(results) = NumTasks
    /\ \A i \in 1..NumTasks :
         /\ tasks[i].st = "resolved" => results[i] = tasks[i].value
         /\ tasks[i].st = "rejected" => results[i] = Undefined

\* C2 (as claimed): once startAll has accepted its arguments, the promise it
\* returns resolves and never rejects, whatever the tasks reject with and
\* whatever the rejects option.
C2_BatchNeverRejects ==
  (pc = "done" /\ outcome # "configError") => outcome = "resolved"

\* C3: every task is invoked exactly once, in input order and with the
\* arguments it was paired with; no task resumes (the orchestrator does not
\* wait) before all of them have been invoked; and startAll goes past the join
\* only when every task has been invoked and has settled, whatever the others
\* did.
C3_Resumes ==
  \E i \in TaskIds : tasks[i].st \in {"awaitMicro", "awaitMacro"} /\ tasks'[i].st = "running"
C3_EveryTaskRunsOnce ==
  [][/\ Accepted' =>
          /\ \A i \in 1..NumTasks' :
               /\ tasks'[i].invoked = (IF i < launchIdx' THEN 1 ELSE 0)
               /\ tasks'[i].invoked = 1 => tasks'[i].with = functions'[i].args
          /\ pc' \in {"yield", "done"} =>
               \A i \in 1..NumTasks' : tasks'[i].invoked = 1 /\ Settled(i)'
     /\ C3_Resumes => Launched]_vars

\* C3 witness: a batch has returned in which the first task rejected before the
\* second, a (function, arguments) pair, was invoked, and the second awaited
\* and resolved
C3_Witness ==
  /\ pc = "done"
  /\ NumTasks = 2
  /\ tasks[1].st = "rejected" /\ tasks[1].awaits = 0
  /\ functions[2].array
  /\ tasks[2].st = "resolved" /\ tasks[2].awaits = 1 /\ tasks[2].with = <<"x">>

\* C4 (as claimed): with rejects = true every captured rejection is printed
\* exactly once, in the order captured, only once the batch is over and after
\* the final recap write; with rejects = false nothing is printed.
C4_EveryRejectionPrintedOnce ==
  /\ printed # <<>> => pc = "done"
  /\ (pc = "done" /\ outcome # "configError") =>
       /\ printed = IF rejectOpt THEN [k \in DOMAIN rejects |-> Diagnostic(rejects[k])]
                    ELSE <<>>
       /\ \A k \in DOMAIN finalOut : finalOut[k] = "recap" => k = 1

\* C5 (as claimed): during a batch run with recap = "none" no recap line is
\* written, on no lifecycle event and not at finalization.
C5_NoRecapWriteWhenNone ==
  (Accepted /\ Own.recapOpt = "none") => batchWrites = 0

\* C6 (as claimed): during a batch run with recap = "error" no recap line is
\* written before the first failed event of that batch; a batch without a
\* failed event writes none at all.
C6_NoRecapWriteBeforeFailure ==
  (Accepted /\ Own.recapOpt = "error" /\ Own.failed = 0) => batchWrites = 0

\* a lifecycle event is counted by the listeners of the batch in progress
EventCounted ==
  /\ Accepted
  /\ listeners # <<>>
  /\ Len(listeners') = Len(listeners)
  /\ Own'.started + Own'.finished = Own.started + Own.finished + 1

\* C7 (as claimed): with recap = "error", once a failed event has been counted
\* every later lifecycle event of the batch causes a recap write, whatever the
\* number of start events counted.
C7_EveryEventAfterFailureWrites ==
  [][(EventCounted /\ Own.recapOpt = "error" /\ Own.failed >= 1)
       => Own'.writes = Own.writes + 1]_vars

\* C7 (amended): with recap = "error", once a failed event has been counted a
\* later lifecycle event of the batch causes a recap write exactly when, that
\* event counted, the number of start events counted equals the number of
\* tasks.
C7_EventAfterFailureWritesWhenAllStarted ==
  [][(EventCounted /\ Own.recapOpt = "error" /\ Own.failed >= 1)
       => Own'.writes = Own.writes + (IF Own'.started = Own.total THEN 1 ELSE 0)]_vars

\* C7 witness: with recap = "error", events counted after a failure have
\* written the recap line
C7_Witness ==
  /\ pc = "running"
  /\ Own.recapOpt = "error"
  /\ Own.failed >= 1
  /\ Own.finished >= 2
  /\ Own.writes >= 2

\* every task started its spinner once and ended it once, with succeed() when
\* it resolved and failed() when it rejected
C8_OneSpinnerPerTask ==
  \A i \in 1..NumTasks :
    /\ spinners[i].verbose
    /\ tasks[i].nStart = 1
    /\ \/ tasks[i].st = "resolved" /\ tasks[i].nSucc = 1 /\ tasks[i].nFail = 0
       \/ tasks[i].st = "rejected" /\ tasks[i].nSucc = 0 /\ tasks[i].nFail = 1

\* C8 (as claimed): after a batch of n such tasks with recap = "always", the
\* recap string written last is "n / n : with k failed", k the number of tasks
\* that rejected.
C8_LastRecapIsFullString ==
  (pc = "done" /\ Accepted /\ Own.recapOpt = "always" /\ NumTasks >= 1
     /\ C8_OneSpinnerPerTask)
    => lastRecap = RecapStr(NumTasks, NumTasks, Cardinality(Rejected))

\* C8 (amended): ... the recap string written last is "n / n : with k failed",
\* cut to its first process.stdout.columns characters when it is longer than
\* the terminal is wide.
C8_LastRecapIsStringCutToWidth ==
  (pc = "done" /\ Accepted /\ Own.recapOpt = "always" /\ C8_OneSpinnerPerTask)
    => lastRecap = DisplayRecap(RecapStr(NumTasks, NumTasks, Cardinality(Rejected)), cols)

\* C8 witness: two such tasks, one of which rejected and one of which awaited,
\* have run on a terminal narrower than the recap string
C8_Witness ==
  /\ pc = "done" /\ Accepted /\ Own.recapOpt = "always" /\ C8_OneSpinnerPerTask
  /\ NumTasks = 2
  /\ Cardinality(Rejected) = 1
  /\ \E i \in 1..NumTasks : tasks[i].awaits = 1
  /\ cols < Len(RecapStr(2, 2, 1))

\* the arguments of the last call are ones startAll must refuse
BadCall ==
  \/ \E i \in DOMAIN functions :
       ~(functions[i].async /\ (functions[i].array \/ ~functions[i].array))
  \/ recapArg \notin {"none", "error", "always", "absent"}

C10_TextReadsBackStripped ==
  \A s \in Spinners : spinners[s].text = StripAll(spinners[s].textIn)

\* C11 (as claimed): whatever the terminal width, the glyph, the prefix, the
\* text (escape sequences and double-width characters included) and the color,
\* the line lineToRender returns is never wider on the terminal than the
\* terminal, an escape sequence counting 0 columns and a double-width
\* character 2.
C11_LineFitsTerminal ==
  \A s \in Spinners :
    spinners[s].line # NoLine => VisibleWidth(spinners[s].line) <= cols

\* C12 (as claimed): a color that names no supported color is refused when it
\* is assigned, so no instance holds one, and start() never fails because of
\* the color once it has marked the instance Running and emitted its events.
C12_BadColorRefusedAtAssignment ==
  \A s \in Spinners :
    /\ spinners[s].color \in {NoColor} \cup KleurColors
    /\ ~(spinners[s].thrown = "start" /\ spinners[s].started)

\* C13 (as claimed): the cursor is hidden from the launch of the tasks until
\* finalization, and when the promise startAll returned settles the cursor is
\* visible again and Spinner.count is 0.
C13_CursorRestoredWhenSettled ==
  /\ pc \in {"running", "yield"} => cursorHidden
  /\ (pc = "done" /\ outcome # "configError") => (~cursorHidden /\ count = 0)

\* a task calls start / stop / succeed / failed on its instance
SpinnerCallBy(i) == cur = i /\ ops' = ops + 1

\* C14: a call of start / stop / succeed / failed on an instance constructed
\* with verbose = false writes nothing to the terminal, schedules no redraw,
\* emits no lifecycle event (no counter of a batch changes, no recap line is
\* written) and leaves Spinner.count and the instance itself unchanged; such
\* an instance never has a schedule, a written line or a computed offset.
C14_QuietInstanceDoesNothing ==
  [][/\ \A i \in TaskIds :
          (SpinnerCallBy(i) /\ ~spinners[i].verbose) =>
            UNCHANGED <<spinners, listeners, immediateQ, microQ, count, lastRecap,
                        batchWrites>>
     /\ \A s \in Spinners :
          ~spinners[s].verbose =>
            /\ ~spinners'[s].verbose
            /\ spinners'[s].timers = 0
            /\ spinners'[s].line = NoLine
            /\ spinners'[s].offset = NoOffset]_vars

\* C14 witness: in a batch with recap = "always" the task of an instance
\* constructed with verbose = false has called start() and failed() on it,
\* the task of a verbose instance has started it, and the batch has counted
\* one start event and no failure
C14_Witness ==
  /\ pc = "running"
  /\ NumTasks = 2
  /\ Own.recapOpt = "always"
  /\ ~spinners[1].verbose /\ tasks[1].nStart = 1 /\ tasks[1].nFail = 1
  /\ spinners[2].verbose /\ tasks[2].nStart = 1
  /\ Own.started = 1 /\ Own.finished = 0 /\ Own.failed = 0

\* C15 (as claimed): once stop(), succeed() or failed() has returned and
\* start() has not been called again, the instance has no live periodic
\* redraw schedule.
C15_NoScheduleOnceStopped ==
  \A s \in Spinners :
    (spinners[s].verbose /\ ~spinners[s].started) => spinners[s].timers = 0

\* C16 (as claimed): the first start() of an instance gives it as position
\* the value Spinner.count has at that moment and increments Spinner.count by
\* one; a position once assigned never changes; a later start() of the
\* instance changes neither its position nor Spinner.count.
C16_PositionAssignedAtFirstStart ==
  [][\A s \in Spinners :
       /\ (spinners[s].onceArmed /\ ~spinners'[s].onceArmed) =>
            (spinners'[s].spinnerPos = count /\ count' = count + 1)
       /\ spinners[s].spinnerPos # NoPos =>
            spinners'[s].spinnerPos = spinners[s].spinnerPos
       /\ (~spinners[s].onceArmed /\ spinners[s].spinnerPos # NoPos
             /\ tasks'[s].nStart = tasks[s].nStart + 1) =>
            count' = count]_vars

\* C17 (as claimed): no redraw computes its cursor offset from a position
\* that is not assigned yet.
C17_PositionAssignedWhenRead ==
  \A s \in Spinners : spinners[s].offset # NaN

\* C18 (as claimed): once a later batch has been accepted, the bookkeeping of
\* an earlier batch (its started / finished / failed counters, its recap
\* writes) never changes again.
C18_SettledBatchUntouched ==
  [][\A k \in DOMAIN listeners :
       k < Len(listeners) => listeners'[k] = listeners[k]]_vars

\* start events still waiting in the setImmediate queue
PendingStarts == Cardinality({k \in DOMAIN immediateQ : immediateQ[k] = "start"})
\* start() calls the tasks of the batch have made
RECURSIVE StartsCalled(_)
StartsCalled(n) == IF n = 0 THEN 0 ELSE tasks[n].nStart + StartsCalled(n - 1)

\* C19: when startAll does its final recap write, the start event of every
\* start() call a task of the batch made has been delivered and counted, none
\* is still queued, and once the batch is over no lifecycle event changes its
\* counters or writes its recap line.
C19_StartsCountedBeforeFinalRecap ==
  [][/\ (pc = "yield" /\ pc' = "done") =>
          (PendingStarts = 0 /\ Own.started = StartsCalled(NumTasks))
     /\ (pc = "done" /\ pc' = "done") => listeners' = listeners]_vars

\* C19 witness: a batch of two tasks is over; the first started and ended its
\* spinner and resolved without awaiting, so that its start event was still
\* queued at the join; the second awaited before ending its spinner; both
\* start events were counted
C19_Witness ==
  /\ pc = "done" /\ Accepted
  /\ NumTasks = 2
  /\ Own.recapOpt = "always"
  /\ tasks[1].nStart = 1 /\ tasks[1].nSucc = 1 /\ tasks[1].awaits = 0
  /\ tasks[2].nStart = 1 /\ tasks[2].nFail = 1 /\ tasks[2].awaits = 1
  /\ Own.started = 2 /\ Own.finished = 2

\* C20 (as claimed, for the redraws that read an assigned position): the
\* offset Spinner.count - position a redraw computes is at least 1, that is
\* position < Spinner.count, and two instances that have a live redraw
\* schedule at the same time hold distinct positions.
C20_RedrawOnOwnLine ==
  /\ \A s \in Spinners :
       spinners[s].offset.kind = "number" => spinners[s].offset.id >= 1
  /\ \A s, t \in Spinners :
       (s # t /\ spinners[s].timers > 0 /\ spinners[t].timers > 0
          /\ spinners[s].spinnerPos # NoPos /\ spinners[t].spinnerPos # NoPos)
         => spinners[s].spinnerPos # spinners[t].spinnerPos

====
